---- MODULE Spec2Model ----
(***************************************************************************)
(* Model of src/common/pipes/event-validation.pipe.ts: the request pipes   *)
(* that validate a CreateEventDto (date, registration window, recurrence   *)
(* end condition, attendees) and the pipe that validates the date filters  *)
(* of a search request.                                                    *)
(*                                                                         *)
(* JavaScript values are records tagged by `kind`.  Time is counted in     *)
(* ticks since the epoch; a day has DayLen ticks.  A date-time string is   *)
(* kept as its date part and its time part, so that split('T')[0] and      *)
(* new Date(...) are two different conversions of the same string.         *)
(***************************************************************************)
EXTENDS Integers, Sequences, FiniteSets

\* ---------------------------------------------------------------- bounds
MaxDay == 2        \* date parts are day 0 .. MaxDay (day 0 starts at the epoch)
MaxTime == 1       \* time parts are tick 0 .. MaxTime of the day
MaxOcc == 2        \* numeric end-condition values range over -1 .. MaxOcc in halves

DayLen == MaxTime + 1
Days == 0 .. MaxDay
Times == 0 .. MaxTime
MaxMs == MaxDay * DayLen + MaxTime
\* The clock reads a moment after the epoch.
Nows == 1 .. MaxMs

\* ------------------------------------------------------ JavaScript values
Undefined == [kind |-> "undefined"]
Null == [kind |-> "null"]
EmptyStr == [kind |-> "string", form |-> "empty"]
\* A string that is neither a date nor a number, such as "abc".
JunkStr == [kind |-> "string", form |-> "junk"]
\* An ISO date-time string "<date>T<time>Z".
Iso(d, t) == [kind |-> "string", form |-> "iso", date |-> d, time |-> t]
\* A decimal string such as "1" or "1.5"; `twice` is two times its value.
NumStr(n) == [kind |-> "string", form |-> "numeric", twice |-> n]
\* A word such as "endDate".
Word(w) == [kind |-> "string", form |-> "word", text |-> w]
\* A number; `twice` is two times its value, so halves are representable.
Num(n) == [kind |-> "number", nan |-> FALSE, twice |-> n]
NaN == [kind |-> "number", nan |-> TRUE, twice |-> 0]
\* A Date object; Invalid Date has valid = FALSE.
DateObj(ms) == [kind |-> "date", valid |-> TRUE, ms |-> ms]
InvalidDate == [kind |-> "date", valid |-> FALSE, ms |-> 0]

IsoStrings == {Iso(d, t) : d \in Days, t \in Times}

\* Truncation towards zero of a value given as twice itself.
Trunc(twice) == IF twice >= 0 THEN twice \div 2 ELSE -((-twice) \div 2)

\* ToBoolean.
Truthy(v) ==
  CASE v.kind = "undefined" -> FALSE
    [] v.kind = "null" -> FALSE
    [] v.kind = "string" -> v.form # "empty"
    [] v.kind = "number" -> ~v.nan /\ v.twice # 0
    [] v.kind = "date" -> TRUE
    [] v.kind = "object" -> TRUE
    [] v.kind = "array" -> TRUE

\* new Date(v) for the argument kinds the pipes pass.  A numeric string goes
\* through the host's legacy date parser and is not an input of the model.
NewDate(v) ==
  CASE v.kind = "undefined" -> InvalidDate
    [] v.kind = "null" -> DateObj(0)
    [] v.kind = "date" -> v
    [] v.kind = "number" -> IF v.nan THEN InvalidDate ELSE DateObj(Trunc(v.twice))
    [] v.kind = "string" /\ v.form = "iso" -> DateObj(v.date * DayLen + v.time)
    [] v.kind = "string" /\ v.form \in {"empty", "junk", "word"} -> InvalidDate

\* Number(v) for the argument kinds the pipes pass.
Number(v) ==
  CASE v.kind = "undefined" -> NaN
    [] v.kind = "null" -> Num(0)
    [] v.kind = "number" -> v
    [] v.kind = "string" /\ v.form = "numeric" -> Num(v.twice)
    [] v.kind = "string" /\ v.form = "empty" -> Num(0)
    [] v.kind = "string" /\ v.form \in {"iso", "junk", "word"} -> NaN

\* ToNumber of an operand of <, <=, >: a Date gives its time value, null 0.
ToNumber(v) ==
  CASE v.kind = "date" -> IF v.valid THEN Num(2 * v.ms) ELSE NaN
    [] v.kind = "null" -> Num(0)
    [] v.kind = "number" -> v

\* The relational operators: any comparison with NaN is false.
Lt(a, b) ==
  LET x == ToNumber(a)
      y == ToNumber(b)
  IN ~x.nan /\ ~y.nan /\ x.twice < y.twice
Le(a, b) ==
  LET x == ToNumber(a)
      y == ToNumber(b)
  IN ~x.nan /\ ~y.nan /\ x.twice <= y.twice
Gt(a, b) == Lt(b, a)

\* str.split('T')[0] of a date-time string: its date part.
SplitT0(s) == s.date

\* ------------------------------------------------------- pipe results
Throw(message) == [errors |-> <<message>>, value |-> Undefined]
Return(v) == [errors |-> <<>>, value |-> v]

\* ------------------------------------------------------- CreateEventDto
MaxAttendees == 1  \* an attendees array holds 0 .. MaxAttendees entries

Array(n) == [kind |-> "array", length |-> n]
\* endCondition: { type, value }
EndCondition(type, value) == [kind |-> "object", type |-> type, value |-> value]
\* recurrencePattern with `nkeys` own keys, endCondition among them or not.
Pattern(nkeys, endCondition) ==
  [kind |-> "object", nkeys |-> nkeys, endCondition |-> endCondition]

\* EndConditionType of ../utils/types.
EndConditionType == [endDate |-> Word("endDate"), occurrences |-> Word("occurrences")]

\* obj?.field
OptField(obj, field) ==
  IF obj.kind \in {"undefined", "null"} THEN Undefined ELSE obj[field]

\* Object.keys(obj).length
KeysLength(obj) == obj.nkeys

\* ------------------------------------------------- DateValidationPipe
\* DateValidationPipe with `startDate < currentDate` for `startDate <= currentDate`.
DateValidationPipeStartNotBefore(createEventDto, now) ==
  LET eventStartDate == SplitT0(createEventDto.startDatetime)
      eventEndDate == SplitT0(createEventDto.endDatetime)
      startDate == NewDate(createEventDto.startDatetime)
      endDate == NewDate(createEventDto.endDatetime)
      currentDate == DateObj(now)
  IN IF eventStartDate # eventEndDate /\ createEventDto.isRecurring
       THEN Throw("MULTIDAY_EVENT_NOT_RECURRING")
     ELSE IF Lt(startDate, currentDate)
       THEN Throw("START_DATE_INVALID")
     ELSE IF Lt(endDate, startDate)
       THEN Throw("END_DATE_INVALID")
     ELSE Return(createEventDto)

\* DateValidationPipe with the end-before-start check moved before the others.
DateValidationPipeEndFirst(createEventDto, now) ==
  LET eventStartDate == SplitT0(createEventDto.startDatetime)
      eventEndDate == SplitT0(createEventDto.endDatetime)
      startDate == NewDate(createEventDto.startDatetime)
      endDate == NewDate(createEventDto.endDatetime)
      currentDate == DateObj(now)
  IN IF Lt(endDate, startDate)
       THEN Throw("END_DATE_INVALID")
     ELSE IF eventStartDate # eventEndDate /\ createEventDto.isRecurring
       THEN Throw("MULTIDAY_EVENT_NOT_RECURRING")
     ELSE IF Le(startDate, currentDate)
       THEN Throw("START_DATE_INVALID")
     ELSE Return(createEventDto)

DateValidationPipe(createEventDto, now) ==
  LET eventStartDate == SplitT0(createEventDto.startDatetime)
      eventEndDate == SplitT0(createEventDto.endDatetime)
      startDate == NewDate(createEventDto.startDatetime)
      endDate == NewDate(createEventDto.endDatetime)
      currentDate == DateObj(now)
  IN IF eventStartDate # eventEndDate /\ createEventDto.isRecurring
       THEN Throw("MULTIDAY_EVENT_NOT_RECURRING")
     ELSE IF Le(startDate, currentDate)
       THEN Throw("START_DATE_INVALID")
     ELSE IF Lt(endDate, startDate)
       THEN Throw("END_DATE_INVALID")
     ELSE Return(createEventDto)

\* ------------------------------------- RegistrationDateValidationPipe
\* RegistrationDateValidationPipe without the check of the registration end
\* against the event start.
RegistrationDateValidationPipeOpenEnd(createEventDto, now) ==
  LET currentDate == DateObj(now)
      startDate == NewDate(createEventDto.startDatetime)
      registrationStartDate ==
        IF Truthy(createEventDto.registrationEndDate)
          THEN NewDate(createEventDto.registrationStartDate)
          ELSE Null
      isRestricted == createEventDto.isRestricted
      registrationEndDate ==
        IF Truthy(createEventDto.registrationEndDate)
          THEN NewDate(createEventDto.registrationEndDate)
          ELSE Null
  IN IF \/ (createEventDto.isRestricted /\ Truthy(registrationStartDate))
        \/ (createEventDto.isRestricted /\ Truthy(registrationEndDate))
       THEN Throw("RESTRICTED_EVENT_NO_REGISTRATION_DATE")
     ELSE IF Lt(registrationStartDate, currentDate) /\ ~isRestricted
       THEN Throw("REGISTRATION_START_DATE_INVALID")
     ELSE IF Lt(registrationEndDate, currentDate) /\ ~isRestricted
       THEN Throw("REGISTRATION_END_DATE_INVALID")
     ELSE IF Gt(registrationStartDate, registrationEndDate) /\ ~isRestricted
       THEN Throw("REGISTRATION_START_DATE_BEFORE_END_DATE")
     ELSE IF Gt(registrationStartDate, startDate) /\ ~isRestricted
       THEN Throw("REGISTRATION_START_DATE_BEFORE_EVENT_DATE")
     ELSE Return(createEventDto)

RegistrationDateValidationPipe(createEventDto, now) ==
  LET currentDate == DateObj(now)
      startDate == NewDate(createEventDto.startDatetime)
      registrationStartDate ==
        IF Truthy(createEventDto.registrationEndDate)
          THEN NewDate(createEventDto.registrationStartDate)
          ELSE Null
      isRestricted == createEventDto.isRestricted
      registrationEndDate ==
        IF Truthy(createEventDto.registrationEndDate)
          THEN NewDate(createEventDto.registrationEndDate)
          ELSE Null
  IN IF \/ (createEventDto.isRestricted /\ Truthy(registrationStartDate))
        \/ (createEventDto.isRestricted /\ Truthy(registrationEndDate))
       THEN Throw("RESTRICTED_EVENT_NO_REGISTRATION_DATE")
     ELSE IF Lt(registrationStartDate, currentDate) /\ ~isRestricted
       THEN Throw("REGISTRATION_START_DATE_INVALID")
     ELSE IF Lt(registrationEndDate, currentDate) /\ ~isRestricted
       THEN Throw("REGISTRATION_END_DATE_INVALID")
     ELSE IF Gt(registrationStartDate, registrationEndDate) /\ ~isRestricted
       THEN Throw("REGISTRATION_START_DATE_BEFORE_END_DATE")
     ELSE IF Gt(registrationStartDate, startDate) /\ ~isRestricted
       THEN Throw("REGISTRATION_START_DATE_BEFORE_EVENT_DATE")
     ELSE IF Gt(registrationEndDate, startDate) /\ ~isRestricted
       THEN Throw("REGISTRATION_END_DATE_BEFORE_EVENT_DATE")
     ELSE Return(createEventDto)

\* ------------------------------------- RecurringEndDateValidationPipe
\* RecurringEndDateValidationPipe that stores the parsed end date in the record
\* (the assignment the source has commented out).
RecurringEndDateValidationPipeStoresDate(createEventDto, now) ==
  LET endCondition == OptField(createEventDto.recurrencePattern, "endCondition")
      endConditionValue == OptField(endCondition, "value")
      endConditionType == OptField(endCondition, "type")
      recurrenceEndDate == NewDate(endConditionValue)
      dateValid == Truthy(recurrenceEndDate) /\ recurrenceEndDate.valid
      startDate == NewDate(createEventDto.startDatetime)
      currentDate == DateObj(now)
      occurrences == Number(endConditionValue)
  IN IF createEventDto.isRecurring
       THEN IF ~Truthy(endConditionType) \/ ~Truthy(endConditionValue)
              THEN Throw("RECURRING_PATTERN_REQUIRED")
            ELSE IF endConditionType = Word("endDate")
              THEN IF ~dateValid
                     THEN Throw("RECURRENCE_END_DATE_INVALID")
                   ELSE IF Lt(recurrenceEndDate, currentDate)
                     THEN Throw("RECURRENCE_END_DATE_SHOULD_BE_GREATER_THAN_CURRENT_DATE")
                   ELSE IF Le(recurrenceEndDate, startDate)
                     THEN Throw("RECURRENCE_END_DATE_AFTER_EVENT_DATE")
                   ELSE Return([createEventDto EXCEPT
                                  !.recurrencePattern.endCondition.value = recurrenceEndDate])
            ELSE IF endConditionType = EndConditionType.occurrences
              THEN IF ~Truthy(occurrences) \/ Lt(occurrences, Num(2 * 1))
                     THEN Throw("RECURRENCE_OCCURRENCES_INVALID")
                   ELSE Return(createEventDto)
            ELSE IF /\ endConditionType # EndConditionType.occurrences
                    /\ endConditionType # EndConditionType.endDate
              THEN Throw("RECURRENCE_PATTERN_INVALID")
            ELSE Return(createEventDto)
     ELSE IF /\ ~createEventDto.isRecurring
             /\ KeysLength(IF createEventDto.recurrencePattern.kind \in {"undefined", "null"}
                             THEN Pattern(0, Undefined)
                             ELSE createEventDto.recurrencePattern) # 0
       THEN Throw("RECURRING_PATTERN_NOT_REQUIRED")
     ELSE Return(createEventDto)

RecurringEndDateValidationPipe(createEventDto, now) ==
  LET endCondition == OptField(createEventDto.recurrencePattern, "endCondition")
      endConditionValue == OptField(endCondition, "value")
      endConditionType == OptField(endCondition, "type")
      recurrenceEndDate == NewDate(endConditionValue)
      dateValid == Truthy(recurrenceEndDate) /\ recurrenceEndDate.valid
      startDate == NewDate(createEventDto.startDatetime)
      currentDate == DateObj(now)
      occurrences == Number(endConditionValue)
  IN IF createEventDto.isRecurring
       THEN IF ~Truthy(endConditionType) \/ ~Truthy(endConditionValue)
              THEN Throw("RECURRING_PATTERN_REQUIRED")
            ELSE IF endConditionType = Word("endDate")
              THEN IF ~dateValid
                     THEN Throw("RECURRENCE_END_DATE_INVALID")
                   ELSE IF Lt(recurrenceEndDate, currentDate)
                     THEN Throw("RECURRENCE_END_DATE_SHOULD_BE_GREATER_THAN_CURRENT_DATE")
                   ELSE IF Le(recurrenceEndDate, startDate)
                     THEN Throw("RECURRENCE_END_DATE_AFTER_EVENT_DATE")
                   ELSE Return(createEventDto)
            ELSE IF endConditionType = EndConditionType.occurrences
              THEN IF ~Truthy(occurrences) \/ Lt(occurrences, Num(2 * 1))
                     THEN Throw("RECURRENCE_OCCURRENCES_INVALID")
                   ELSE Return(createEventDto)
            ELSE IF /\ endConditionType # EndConditionType.occurrences
                    /\ endConditionType # EndConditionType.endDate
              THEN Throw("RECURRENCE_PATTERN_INVALID")
            ELSE Return(createEventDto)
     ELSE IF /\ ~createEventDto.isRecurring
             /\ KeysLength(IF createEventDto.recurrencePattern.kind \in {"undefined", "null"}
                             THEN Pattern(0, Undefined)
                             ELSE createEventDto.recurrencePattern) # 0
       THEN Throw("RECURRING_PATTERN_NOT_REQUIRED")
     ELSE Return(createEventDto)

\* ------------------------------------------- AttendeesValidationPipe
AttendeesValidationPipe(createEventDto) ==
  LET attendees == createEventDto.attendees
  IN IF ~createEventDto.isRestricted
       THEN IF Truthy(attendees) /\ attendees.length # 0
              THEN Throw("ATTENDEES_NOT_REQUIRED")
            ELSE Return(createEventDto)
     ELSE Return(createEventDto)

\* ------------------------------------------ SearchDateValidationPipe
\* A range object { after, before }.
Range(after, before) == [kind |-> "object", after |-> after, before |-> before]
\* The filters object { date, startDate, endDate }.
Filters(date, startDate, endDate) ==
  [kind |-> "object", date |-> date, startDate |-> startDate, endDate |-> endDate]
NoFilters == Filters(Undefined, Undefined, Undefined)

\* The messages of the exceptions (the quotation marks inside them left out).
AmbiguousDateFilter == "Only one of date, startDate, or endDate should be provided."
IncompleteDate == "Both after and before fields are required when date is provided."
IncompleteStartDate == "Both after and before fields are required when startDate is provided."
IncompleteEndDate == "Both after and before fields are required when endDate is provided."
IncompleteCombined == "if StartDate and EndDate Provided then after fields is required in startDate and before fields is required in endDate"
InvertedDateRange == "after should be less than and equal to before fields"

\* SearchDateValidationPipe with `>=` for `>` in the combined range.
SearchDateValidationPipeStrict(value) ==
  LET filters == IF Truthy(value.filters) THEN value.filters ELSE NoFilters
      date == filters.date
      startDate == filters.startDate
      endDate == filters.endDate
  IN IF Truthy(date) /\ (Truthy(startDate) \/ Truthy(endDate))
       THEN Throw(AmbiguousDateFilter)
     ELSE IF Truthy(date) /\ (~Truthy(date.after) \/ ~Truthy(date.before))
       THEN Throw(IncompleteDate)
     ELSE IF /\ Truthy(startDate)
             /\ (~Truthy(startDate.after) \/ ~Truthy(startDate.before))
             /\ endDate = Undefined
       THEN Throw(IncompleteStartDate)
     ELSE IF /\ Truthy(endDate)
             /\ (~Truthy(endDate.after) \/ ~Truthy(endDate.before))
             /\ startDate = Undefined
       THEN Throw(IncompleteEndDate)
     ELSE IF /\ Truthy(startDate)
             /\ Truthy(endDate)
             /\ (~Truthy(startDate.after) \/ ~Truthy(endDate.before))
       THEN Throw(IncompleteCombined)
     ELSE IF \/ (Truthy(date) /\ Gt(NewDate(date.after), NewDate(date.before)))
             \/ (/\ Truthy(startDate)
                 /\ ~Truthy(endDate)
                 /\ Gt(NewDate(startDate.after), NewDate(startDate.before)))
             \/ (/\ Truthy(endDate)
                 /\ ~Truthy(startDate)
                 /\ Gt(NewDate(endDate.after), NewDate(endDate.before)))
             \/ (/\ Truthy(startDate)
                 /\ Truthy(endDate)
                 /\ Le(NewDate(endDate.before), NewDate(startDate.after)))
       THEN Throw(InvertedDateRange)
     ELSE Return(value)

SearchDateValidationPipe(value) ==
  LET filters == IF Truthy(value.filters) THEN value.filters ELSE NoFilters
      date == filters.date
      startDate == filters.startDate
      endDate == filters.endDate
  IN IF Truthy(date) /\ (Truthy(startDate) \/ Truthy(endDate))
       THEN Throw(AmbiguousDateFilter)
     ELSE IF Truthy(date) /\ (~Truthy(date.after) \/ ~Truthy(date.before))
       THEN Throw(IncompleteDate)
     ELSE IF /\ Truthy(startDate)
             /\ (~Truthy(startDate.after) \/ ~Truthy(startDate.before))
             /\ endDate = Undefined
       THEN Throw(IncompleteStartDate)
     ELSE IF /\ Truthy(endDate)
             /\ (~Truthy(endDate.after) \/ ~Truthy(endDate.before))
             /\ startDate = Undefined
       THEN Throw(IncompleteEndDate)
     ELSE IF /\ Truthy(startDate)
             /\ Truthy(endDate)
             /\ (~Truthy(startDate.after) \/ ~Truthy(endDate.before))
       THEN Throw(IncompleteCombined)
     ELSE IF \/ (Truthy(date) /\ Gt(NewDate(date.after), NewDate(date.before)))
             \/ (/\ Truthy(startDate)
                 /\ ~Truthy(endDate)
                 /\ Gt(NewDate(startDate.after), NewDate(startDate.before)))
             \/ (/\ Truthy(endDate)
                 /\ ~Truthy(startDate)
                 /\ Gt(NewDate(endDate.after), NewDate(endDate.before)))
             \/ (/\ Truthy(startDate)
                 /\ Truthy(endDate)
                 /\ Gt(NewDate(startDate.after), NewDate(endDate.before)))
       THEN Throw(InvertedDateRange)
     ELSE Return(value)

\* ================================================================ inputs
\* startDatetime, endDatetime: date-time strings (the schema layer has checked
\* the type).  registrationStartDate, registrationEndDate: absent or date-time
\* strings.
OptIsoStrings == {Undefined} \cup IsoStrings

\* endCondition.value as it arrives in the JSON body.
NumTwices == (-2) .. (2 * MaxOcc)
EndValues ==
  {Undefined, EmptyStr, JunkStr} \cup IsoStrings
    \cup {NumStr(n) : n \in NumTwices} \cup {Num(n) : n \in NumTwices}
EndTypes == {Undefined, EmptyStr, Word("endDate"), Word("occurrences"), Word("weekly")}
\* A numeric string never reaches new Date(...) (see NewDate).
EndConditions ==
  {Undefined} \cup
  {EndCondition(t, v) : <<t, v>> \in
     {tv \in EndTypes \X EndValues :
        ~(tv[1] = Word("endDate") /\ tv[2].kind = "string" /\ tv[2].form = "numeric")}}
\* absent, {}, { frequency } and { endCondition }.
Patterns ==
  {Undefined, Pattern(0, Undefined), Pattern(1, Undefined)}
    \cup {Pattern(1, ec) : ec \in EndConditions \ {Undefined}}
AttendeeLists == {Undefined} \cup {Array(n) : n \in 0 .. MaxAttendees}

Dto(s, e, rec, restr, rs, re, pat, att) ==
  [startDatetime |-> s, endDatetime |-> e, isRecurring |-> rec, isRestricted |-> restr,
   registrationStartDate |-> rs, registrationEndDate |-> re,
   recurrencePattern |-> pat, attendees |-> att]

\* The requests of the model: every combination of the fields one pipe reads,
\* the fields it does not read left absent (endDatetime: equal to startDatetime).
DateRequests ==
  {Dto(s, e, rec, FALSE, Undefined, Undefined, Undefined, Undefined) :
     s \in IsoStrings, e \in IsoStrings, rec \in BOOLEAN}
RegistrationRequests ==
  {Dto(s, s, FALSE, restr, rs, re, Undefined, Undefined) :
     s \in IsoStrings, restr \in BOOLEAN, rs \in OptIsoStrings, re \in OptIsoStrings}
RecurringRequests ==
  {Dto(s, s, rec, FALSE, Undefined, Undefined, pat, Undefined) :
     s \in IsoStrings, rec \in BOOLEAN, pat \in Patterns}
AttendeesRequests ==
  {Dto(s, s, FALSE, restr, Undefined, Undefined, Undefined, att) :
     s \in IsoStrings, restr \in BOOLEAN, att \in AttendeeLists}
Requests ==
  DateRequests \cup RegistrationRequests \cup RecurringRequests \cup AttendeesRequests

\* A bound of a search range: absent, or a date string (midnight of its day).
Bounds == {Undefined} \cup {Iso(d, 0) : d \in Days}
Ranges == {Undefined, Null} \cup {Range(a, b) : a \in Bounds, b \in Bounds}
SearchRequests ==
  {[filters |-> Undefined]}
    \cup {[filters |-> Filters(d, sd, ed)] : d \in Ranges, sd \in Ranges, ed \in Ranges}

\* ========================================================= state machine
VARIABLES
  now,      \* the moment the clock reads while the request is handled
  request,  \* the body as it was received
  body,     \* the body in flight: what the last pipe returned
  pipe,     \* the pipe that ran last, "none" before the first
  errors,   \* the failures reported to the client
  passed,   \* the pipes that have returned the body
  again     \* the pipe that ran last had returned this body before

vars == <<now, request, body, pipe, errors, passed, again>>

Init ==
  /\ now \in Nows
  /\ request \in Requests
  /\ body = request
  /\ pipe = "none"
  /\ errors = <<>>
  /\ passed = {}
  /\ again = FALSE

InitSearch ==
  /\ now = 1
  /\ request \in SearchRequests
  /\ body = request
  /\ pipe = "none"
  /\ errors = <<>>
  /\ passed = {}
  /\ again = FALSE

\* A pipe of the request pipeline has handled the body: a thrown exception
\* ends the request, a returned value is handed on.
Handle(name, result) ==
  /\ pipe' = name
  /\ errors' = result.errors
  /\ body' = IF result.errors = <<>> THEN result.value ELSE body
  /\ passed' = IF result.errors = <<>> THEN passed \cup {name} ELSE passed
  /\ again' = (name \in passed)
  /\ UNCHANGED <<now, request>>

DateValidation ==
  /\ errors = <<>>
  /\ Handle("DateValidationPipe", DateValidationPipe(body, now))

RegistrationDateValidation ==
  /\ errors = <<>>
  /\ Handle("RegistrationDateValidationPipe", RegistrationDateValidationPipe(body, now))

RecurringEndDateValidation ==
  /\ errors = <<>>
  /\ Handle("RecurringEndDateValidationPipe", RecurringEndDateValidationPipe(body, now))

AttendeesValidation ==
  /\ errors = <<>>
  /\ Handle("AttendeesValidationPipe", AttendeesValidationPipe(body))

SearchDateValidation ==
  /\ errors = <<>>
  /\ Handle("SearchDateValidationPipe", SearchDateValidationPipe(body))

Next ==
  \/ DateValidation
  \/ RegistrationDateValidation
  \/ RecurringEndDateValidation
  \/ AttendeesValidation

NextSearch == SearchDateValidation

Spec == Init /\ [][Next]_vars

SpecSearch == InitSearch /\ [][NextSearch]_vars

\* ================================================================ claims
\* The moment a date-time string names, in ticks since the epoch.
Instant(s) == s.date * DayLen + s.time
Present(v) == v # Undefined
Ran(name) == pipe = name
Accepted == errors = <<>> /\ body = request

\* The first message of `order` that is in `violated`.
RECURSIVE FirstOf(_, _)
FirstOf(order, violated) ==
  IF Head(order) \in violated THEN Head(order) ELSE FirstOf(Tail(order), violated)

\* ---- C1
C1Record ==
  /\ ~request.isRestricted
  /\ ~request.isRecurring
  /\ Instant(request.startDatetime) > now
  /\ Instant(request.endDatetime) >= Instant(request.startDatetime)
  /\ ~Present(request.registrationStartDate)
  /\ ~Present(request.registrationEndDate)
  /\ ~Present(request.attendees)
  /\ ~Present(request.recurrencePattern)

\* C1: a non-restricted, non-recurring record that starts in the future, does
\* not end before it starts and carries no registration dates, attendees or
\* recurrence pattern is passed by every validator that handles it.
C1_PlainFutureRecordPasses ==
  (pipe # "none" /\ C1Record) => errors = <<>>

\* ---- C2
\* C2: RegistrationDateValidationPipe fails every restricted record that
\* carries a registration date (start, end or both) with
\* RESTRICTED_EVENT_NO_REGISTRATION_DATE.
C2_RestrictedWithRegistrationDateFails ==
  (/\ Ran("RegistrationDateValidationPipe")
   /\ request.isRestricted
   /\ (Present(request.registrationStartDate) \/ Present(request.registrationEndDate)))
  => errors = <<"RESTRICTED_EVENT_NO_REGISTRATION_DATE">>

\* ---- C3
MultiDayRecurring ==
  request.isRecurring /\ request.startDatetime.date # request.endDatetime.date
StartNotInFuture == Instant(request.startDatetime) <= now
EndBeforeStart == Instant(request.endDatetime) < Instant(request.startDatetime)

\* C3: DateValidationPipe returns the record exactly when the event is not a
\* recurring one spanning two calendar days, starts strictly after the current
\* moment and does not end before it starts; otherwise it fails.
C3_DateAcceptsIffNoRuleViolated ==
  Ran("DateValidationPipe") =>
    (Accepted <=> ~(MultiDayRecurring \/ StartNotInFuture \/ EndBeforeStart))

C3_Witness ==
  /\ Ran("DateValidationPipe")
  /\ Accepted
  /\ request.isRecurring
  /\ Instant(request.endDatetime) > Instant(request.startDatetime)

\* ---- C4
EndConditionOf(dto) == dto.recurrencePattern.endCondition
HasEndCondition(dto) ==
  Present(dto.recurrencePattern) /\ Present(dto.recurrencePattern.endCondition)
\* The value parses to an integer >= 1.
IntegerAtLeastOne(v) ==
  LET n == Number(v) IN ~n.nan /\ n.twice % 2 = 0 /\ n.twice >= 2

\* C4: for a recurring record whose endCondition has type "occurrences" and a
\* value, RecurringEndDateValidationPipe fails with
\* RECURRENCE_OCCURRENCES_INVALID unless the value parses to an integer >= 1.
C4_OccurrencesMustBeIntegerAtLeastOne ==
  (/\ Ran("RecurringEndDateValidationPipe")
   /\ request.isRecurring
   /\ HasEndCondition(request)
   /\ EndConditionOf(request).type = Word("occurrences")
   /\ EndConditionOf(request).value \notin {Undefined, EmptyStr}
   /\ ~IntegerAtLeastOne(EndConditionOf(request).value))
  => errors = <<"RECURRENCE_OCCURRENCES_INVALID">>

\* ---- C5
\* C5: a recurring record whose endCondition has type "endDate" and a value
\* that parses to a valid date passes RecurringEndDateValidationPipe only if
\* the recurrence end is strictly after the current moment and strictly after
\* the event start.
C5_RecurrenceEndStrictlyAfterNowAndStart ==
  (/\ Ran("RecurringEndDateValidationPipe")
   /\ request.isRecurring
   /\ HasEndCondition(request)
   /\ EndConditionOf(request).type = Word("endDate")
   /\ NewDate(EndConditionOf(request).value).valid
   /\ errors = <<>>)
  => /\ NewDate(EndConditionOf(request).value).ms > now
     /\ NewDate(EndConditionOf(request).value).ms > Instant(request.startDatetime)

\* ---- C6
DateRuleOrder ==
  <<"MULTIDAY_EVENT_NOT_RECURRING", "START_DATE_INVALID", "END_DATE_INVALID">>
DateViolations ==
  {m \in {DateRuleOrder[i] : i \in 1 .. Len(DateRuleOrder)} :
     \/ m = "MULTIDAY_EVENT_NOT_RECURRING" /\ MultiDayRecurring
     \/ m = "START_DATE_INVALID" /\ StartNotInFuture
     \/ m = "END_DATE_INVALID" /\ EndBeforeStart}

RegistrationRuleOrder ==
  <<"RESTRICTED_EVENT_NO_REGISTRATION_DATE",
    "REGISTRATION_START_DATE_INVALID",
    "REGISTRATION_END_DATE_INVALID",
    "REGISTRATION_START_DATE_BEFORE_END_DATE",
    "REGISTRATION_START_DATE_BEFORE_EVENT_DATE",
    "REGISTRATION_END_DATE_BEFORE_EVENT_DATE">>
\* The registration start is looked at only when the registration end is set.
RegStartSet ==
  Present(request.registrationStartDate) /\ Present(request.registrationEndDate)
RegEndSet == Present(request.registrationEndDate)
RegistrationViolations ==
  {m \in {RegistrationRuleOrder[i] : i \in 1 .. Len(RegistrationRuleOrder)} :
     \/ /\ m = "RESTRICTED_EVENT_NO_REGISTRATION_DATE"
        /\ request.isRestricted
        /\ (Present(request.registrationStartDate) \/ Present(request.registrationEndDate))
     \/ /\ m = "REGISTRATION_START_DATE_INVALID"
        /\ ~request.isRestricted /\ RegStartSet
        /\ Instant(request.registrationStartDate) < now
     \/ /\ m = "REGISTRATION_END_DATE_INVALID"
        /\ ~request.isRestricted /\ RegEndSet
        /\ Instant(request.registrationEndDate) < now
     \/ /\ m = "REGISTRATION_START_DATE_BEFORE_END_DATE"
        /\ ~request.isRestricted /\ RegStartSet
        /\ Instant(request.registrationStartDate) > Instant(request.registrationEndDate)
     \/ /\ m = "REGISTRATION_START_DATE_BEFORE_EVENT_DATE"
        /\ ~request.isRestricted /\ RegStartSet
        /\ Instant(request.registrationStartDate) > Instant(request.startDatetime)
     \/ /\ m = "REGISTRATION_END_DATE_BEFORE_EVENT_DATE"
        /\ ~request.isRestricted /\ RegEndSet
        /\ Instant(request.registrationEndDate) > Instant(request.startDatetime)}

\* C6: a record that violates more than one rule of DateValidationPipe or of
\* RegistrationDateValidationPipe gets exactly one failure, that of the first
\* violated rule in evaluation order; no request ever gets more than one.
C6_FirstViolatedRuleOnly ==
  /\ Len(errors) <= 1
  /\ (Ran("DateValidationPipe") /\ Cardinality(DateViolations) >= 2)
       => errors = <<FirstOf(DateRuleOrder, DateViolations)>>
  /\ (Ran("RegistrationDateValidationPipe") /\ Cardinality(RegistrationViolations) >= 2)
       => errors = <<FirstOf(RegistrationRuleOrder, RegistrationViolations)>>

C6_Witness ==
  /\ Ran("RegistrationDateValidationPipe")
  /\ Cardinality(RegistrationViolations) >= 3
  /\ errors = <<"REGISTRATION_END_DATE_INVALID">>

\* ---- C7
SearchFilters == IF request.filters = Undefined THEN NoFilters ELSE request.filters
Provided(range) == range.kind = "object"
Lacks(range) == ~Present(range.after) \/ ~Present(range.before)
IncompleteMessages ==
  {IncompleteDate, IncompleteStartDate, IncompleteEndDate, IncompleteCombined}
IncompleteRange ==
  LET f == SearchFilters
  IN \/ Provided(f.date) /\ Lacks(f.date)
     \/ Provided(f.startDate) /\ ~Provided(f.endDate) /\ Lacks(f.startDate)
     \/ Provided(f.endDate) /\ ~Provided(f.startDate) /\ Lacks(f.endDate)
     \/ /\ Provided(f.startDate)
        /\ Provided(f.endDate)
        /\ (~Present(f.startDate.after) \/ ~Present(f.endDate.before))

\* C7: SearchDateValidationPipe fails every unambiguous filter with an
\* incomplete-date-range failure when a provided range lacks `after` or
\* `before`, except that with both startDate and endDate provided only
\* startDate.after and endDate.before are required.
C7_IncompleteRangeRejected ==
  (Ran("SearchDateValidationPipe") /\ errors # <<AmbiguousDateFilter>> /\ IncompleteRange)
  => (errors # <<>> /\ Head(errors) \in IncompleteMessages)

\* ---- C8
Exceeds(after, before) ==
  Present(after) /\ Present(before) /\ Instant(after) > Instant(before)
EffectiveInverted ==
  LET f == SearchFilters
  IN \/ Provided(f.date) /\ Exceeds(f.date.after, f.date.before)
     \/ /\ Provided(f.startDate) /\ ~Provided(f.endDate)
        /\ Exceeds(f.startDate.after, f.startDate.before)
     \/ /\ Provided(f.endDate) /\ ~Provided(f.startDate)
        /\ Exceeds(f.endDate.after, f.endDate.before)
     \/ /\ Provided(f.startDate) /\ Provided(f.endDate)
        /\ Exceeds(f.startDate.after, f.endDate.before)

\* C8: a search filter that gets past the ambiguity and completeness checks
\* fails with the inverted-date-range failure exactly when the `after` bound of
\* the form that applies is later than its `before` bound; equal bounds pass.
C8_InvertedIffAfterExceedsBefore ==
  (/\ Ran("SearchDateValidationPipe")
   /\ errors # <<AmbiguousDateFilter>>
   /\ \A m \in IncompleteMessages : errors # <<m>>)
  => (errors = <<InvertedDateRange>> <=> EffectiveInverted)

C8_Witness ==
  /\ Ran("SearchDateValidationPipe")
  /\ Provided(SearchFilters.startDate)
  /\ Provided(SearchFilters.endDate)
  /\ ~Present(SearchFilters.startDate.before)
  /\ errors = <<InvertedDateRange>>

\* ---- C9
\* C9: at a fixed current moment a record that a validator passes is returned
\* with every field unchanged, and a validator that has passed the record
\* passes it again when it handles the returned record.
C9_PassIsIdempotentAndPure ==
  /\ (pipe # "none" /\ errors = <<>>) => body = request
  /\ again => Accepted

C9_Witness ==
  /\ again
  /\ Accepted
  /\ Ran("RecurringEndDateValidationPipe")
  /\ request.isRecurring
  /\ "DateValidationPipe" \in passed

\* ---- C10
\* C10: every non-restricted record that RegistrationDateValidationPipe accepts
\* has registrationEndDate set with now <= registrationEndDate <= startDatetime
\* and, if registrationStartDate is set too,
\* now <= registrationStartDate <= registrationEndDate.
C10_AcceptedRegistrationWindow ==
  (Ran("RegistrationDateValidationPipe") /\ errors = <<>> /\ ~request.isRestricted)
  => /\ Present(request.registrationEndDate)
     /\ now <= Instant(request.registrationEndDate)
     /\ Instant(request.registrationEndDate) <= Instant(request.startDatetime)
     /\ Present(request.registrationStartDate) =>
          /\ now <= Instant(request.registrationStartDate)
          /\ Instant(request.registrationStartDate) <= Instant(request.registrationEndDate)

C10_Witness ==
  /\ Ran("RegistrationDateValidationPipe")
  /\ errors = <<>>
  /\ ~request.isRestricted
  /\ Present(request.registrationStartDate)
  /\ Instant(request.registrationStartDate) < Instant(request.registrationEndDate)

====
